---- MODULE Spec2Model ----
(***************************************************************************)
(* Request client (ApiService) and failure classifier (ErrorHandler).      *)
(*                                                                         *)
(* JavaScript values are modelled as strings; the values that are not      *)
(* strings in the program (null, undefined, a missing header) are the      *)
(* reserved strings below, which no token or message of the model equals.  *)
(***************************************************************************)
EXTENDS Integers, Sequences, FiniteSets, TLC

Null == "<null>"
Undefined == "<undefined>"
NoHeader == "<no header>"

\* Callers that may have an operation of the client in progress at once.
Callers == {1, 2}

\* Credentials the backend hands out.
Tokens == {"t1", "t2"}

\* Response statuses the transport delivers.
Statuses == {200, 302, 401, 500}

JsonMethods == {"get", "post", "put", "patch", "delete"}
AuthMethods == {"login", "register", "refreshToken"}
Ops == JsonMethods \cup {"uploadFile", "logout"} \cup AuthMethods

VARIABLES
    authToken,   \* ApiService.authToken
    storage,     \* localStorage entry 'auth_token' (Null when absent)
    location,    \* window.location.href
    req,         \* per caller: the operation in progress
    options,     \* ErrorHandler.options of the handler in use
    last,        \* the latest handleError call of that handler and what it did
    prev,        \* an earlier classification, kept for comparison
    wrapped,     \* the invocation in progress of a method under handleAsyncError
    apiCall      \* the latest handleApiError call and what it did

vars == <<authToken, storage, location, req, options, last, prev, wrapped,
          apiCall>>

----------------------------------------------------------------------------
(* JavaScript primitives *)

\* ToBoolean on the values of the model: null, undefined and '' are falsy.
Truthy(v) == v \notin {Null, Undefined, ""}

\* String(v), as localStorage.setItem applies it to the value it stores.
ToStr(v) == IF v = Undefined THEN "undefined" ELSE IF v = Null THEN "null" ELSE v

\* String.prototype.includes
Includes(s, sub) ==
    \E i \in 1..(Len(s) - Len(sub) + 1) : SubSeq(s, i, i + Len(sub) - 1) = sub

\* A success test that lets the 4xx statuses through.
OkBelow500(status) == status >= 200 /\ status < 500

\* Response.ok
Ok(status) == status >= 200 /\ status <= 299

----------------------------------------------------------------------------
(* ApiService: credential *)

LoadAuthToken(stored) == stored

\* saveAuthToken that forgets to write the stored entry.
SaveAuthTokenMemoryOnly(token) == <<token, storage>>

\* <<authToken, storage>> after saveAuthToken(token)
SaveAuthToken(token) == <<token, ToStr(token)>>

\* removeAuthToken that forgets the stored entry.
RemoveAuthTokenMemoryOnly == <<Null, storage>>

\* <<authToken, storage>> after removeAuthToken()
RemoveAuthToken == <<Null, Null>>

\* isAuthenticated that compares the credential with null.
IsAuthenticatedNotNull == authToken # Null

\* isAuthenticated(): !!this.authToken
IsAuthenticated == Truthy(authToken)

\* getHeaders that tests the credential against null only.
GetHeadersNotNull(token) ==
    [ContentType |-> "application/json",
     Authorization |-> IF token # Null THEN "Bearer " \o token ELSE NoHeader]

\* The Authorization header getHeaders() builds from the credential held.
GetHeaders(token) ==
    [ContentType |-> "application/json",
     Authorization |-> IF Truthy(token) THEN "Bearer " \o token ELSE NoHeader]

\* The headers uploadFile builds.
UploadHeaders(token) ==
    [ContentType |-> NoHeader,
     Authorization |-> IF Truthy(token) THEN "Bearer " \o token ELSE NoHeader]

----------------------------------------------------------------------------
(* ApiService: responses *)

\* A response body: what response.json() yields ("object", or "invalid" when
\* parsing throws), the declared content type, and the fields of the object.
Body(ctype, parse, message, token) ==
    [ctype |-> ctype, parse |-> parse, message |-> message, token |-> token]

\* No response received.
NoBody == Body("none", "none", Undefined, Undefined)

ErrorBodies ==
    { Body("json", "object", "missing", Undefined),
      Body("json", "object", "", Undefined),
      Body("json", "object", Undefined, Undefined),
      Body("text", "invalid", Undefined, Undefined) }

\* Success bodies: the auth endpoints answer with a credential.
SuccessBodies(op) ==
    IF op \in AuthMethods
    THEN { Body("json", "object", Undefined, t) : t \in Tokens }
         \cup { Body("json", "invalid", Undefined, Undefined) }
    ELSE { Body("json", "object", Undefined, Undefined),
           Body("text", "invalid", Undefined, Undefined),
           Body("json", "invalid", Undefined, Undefined) }

Bodies(op, status) == IF Ok(status) THEN SuccessBodies(op) ELSE ErrorBodies

\* How an operation (or one stage of it) ends.
\*   kind "payload": returned value; token is the payload's token field
\*   kind "failure": thrown ApiError {message, status}
\*   kind "exception": thrown Error of the given name
NoOutcome ==
    [kind |-> "none", status |-> 0, message |-> Undefined,
     token |-> Undefined, name |-> Undefined]
Payload(ctype, token) ==
    [kind |-> "payload", status |-> 0, message |-> Undefined,
     token |-> token, name |-> ctype]
Failure(status, message) ==
    [kind |-> "failure", status |-> status, message |-> message,
     token |-> Undefined, name |-> Undefined]
Exception(name, message) ==
    [kind |-> "exception", status |-> 0, message |-> message,
     token |-> Undefined, name |-> name]

\* errorData.message || `HTTP error! status: ${response.status}`
ErrorMessage(status, body) ==
    IF body.parse = "object" /\ Truthy(body.message)
    THEN body.message
    ELSE "HTTP error! status: " \o ToString(status)

\* handleResponse that treats every failure status as the end of the session.
HandleResponseAnyFailure(status, body) ==
    IF ~Ok(status)
    THEN [outcome |-> Failure(status, ErrorMessage(status, body)),
          unauthorized |-> TRUE,
          effects |-> <<"removeAuthToken", "dispatchEvent", "throw">>]
    ELSE IF body.ctype = "json"
    THEN IF body.parse = "object"
         THEN [outcome |-> Payload("json", body.token),
               unauthorized |-> FALSE, effects |-> <<"return">>]
         ELSE [outcome |-> Exception("SyntaxError", "Unexpected token"),
               unauthorized |-> FALSE, effects |-> <<"throw">>]
    ELSE [outcome |-> Payload("text", Undefined),
          unauthorized |-> FALSE, effects |-> <<"return">>]

\* handleResponse: the outcome, whether the credential is removed, and the
\* side effects in program order.
HandleResponse(status, body) ==
    IF ~Ok(status)
    THEN [outcome |-> Failure(status, ErrorMessage(status, body)),
          unauthorized |-> (status = 401),
          effects |-> IF status = 401
                      THEN <<"removeAuthToken", "dispatchEvent", "throw">>
                      ELSE <<"throw">>]
    ELSE IF body.ctype = "json"
    THEN IF body.parse = "object"
         THEN [outcome |-> Payload("json", body.token),
               unauthorized |-> FALSE, effects |-> <<"return">>]
         ELSE [outcome |-> Exception("SyntaxError", "Unexpected token"),
               unauthorized |-> FALSE, effects |-> <<"throw">>]
    ELSE [outcome |-> Payload("text", Undefined),
          unauthorized |-> FALSE, effects |-> <<"return">>]

----------------------------------------------------------------------------
(* ApiService: operations *)

\* No operation in progress for a caller.
Idle ==
    [op |-> "none", pc |-> "idle", headers |-> GetHeaders(Null), status |-> 0,
     body |-> NoBody, outcome |-> NoOutcome, effects |-> <<>>]

\* The stage after the request settles: the auth operations and logout still
\* have their own continuation to run, the others are complete.
AfterRequest(op) == IF op \in AuthMethods \cup {"logout"} THEN "settled" ELSE "done"

\* A caller starts an operation: headers are built from the credential held
\* and the request is handed to the transport (fetch), which suspends.
Call(c, op) ==
    /\ req[c].pc = "idle"
    /\ req' = [req EXCEPT ![c] =
          [op |-> op, pc |-> "fetching",
           headers |-> IF op = "uploadFile" THEN UploadHeaders(authToken)
                       ELSE GetHeaders(authToken),
           status |-> 0, body |-> NoBody, outcome |-> NoOutcome,
           effects |-> <<"fetch">>]]
    /\ UNCHANGED <<authToken, storage, location, options, last, prev, wrapped,
                   apiCall>>

\* A client that tries the transport a second time before giving up.
FetchRejectRetry(c) ==
    /\ req[c].pc = "fetching"
    /\ IF Len(req[c].effects) < 2
       THEN req' = [req EXCEPT ![c].effects = Append(@, "fetch")]
       ELSE req' = [req EXCEPT ![c].pc = AfterRequest(req[c].op),
                       ![c].outcome = Exception("TypeError", "Failed to fetch"),
                       ![c].effects = Append(@, "throw")]
    /\ UNCHANGED <<authToken, storage, location, options, last, prev, wrapped,
                   apiCall>>

\* The transport throws (no response): the awaiting method rejects.
FetchReject(c) ==
    /\ req[c].pc = "fetching"
    /\ req' = [req EXCEPT ![c].pc = AfterRequest(req[c].op),
                          ![c].outcome = Exception("TypeError", "Failed to fetch"),
                          ![c].effects = Append(@, "throw")]
    /\ UNCHANGED <<authToken, storage, location, options, last, prev, wrapped,
                   apiCall>>

\* A client that ignores a 401 answering a request sent with another
\* credential than the one held now.
RespondIfSameCredential(c, status, body) ==
    /\ req[c].pc = "fetching"
    /\ LET r == HandleResponse(status, body) IN
       /\ req' = [req EXCEPT ![c].pc = AfterRequest(req[c].op),
                             ![c].status = status,
                             ![c].body = body,
                             ![c].outcome = r.outcome,
                             ![c].effects = @ \o r.effects]
       /\ IF r.unauthorized
             /\ req[c].headers.Authorization = GetHeaders(authToken).Authorization
          THEN /\ authToken' = RemoveAuthToken[1]
               /\ storage' = RemoveAuthToken[2]
          ELSE UNCHANGED <<authToken, storage>>
    /\ UNCHANGED <<location, options, last, prev, wrapped, apiCall>>

\* The transport delivers a response and handleResponse runs on it.  Between
\* the delivery and the reading of the body handleResponse touches nothing but
\* the response, so the two are one step.
Respond(c, status, body) ==
    /\ req[c].pc = "fetching"
    /\ LET r == HandleResponse(status, body) IN
       /\ req' = [req EXCEPT ![c].pc = AfterRequest(req[c].op),
                             ![c].status = status,
                             ![c].body = body,
                             ![c].outcome = r.outcome,
                             ![c].effects = @ \o r.effects]
       /\ IF r.unauthorized
          THEN /\ authToken' = RemoveAuthToken[1]
               /\ storage' = RemoveAuthToken[2]
          ELSE UNCHANGED <<authToken, storage>>
    /\ UNCHANGED <<location, options, last, prev, wrapped, apiCall>>

\* An auth operation that drops the credential held when its request fails.
AuthContinueClearsOnFailure(c) ==
    /\ req[c].pc = "settled"
    /\ req[c].op \in AuthMethods
    /\ IF req[c].outcome.kind = "payload"
       THEN /\ authToken' = SaveAuthToken(req[c].outcome.token)[1]
            /\ storage' = SaveAuthToken(req[c].outcome.token)[2]
            /\ req' = [req EXCEPT ![c].pc = "done",
                          ![c].effects = @ \o <<"saveAuthToken", "return">>]
       ELSE /\ authToken' = RemoveAuthToken[1]
            /\ storage' = RemoveAuthToken[2]
            /\ req' = [req EXCEPT ![c].pc = "done",
                          ![c].effects = Append(@, "throw")]
    /\ UNCHANGED <<location, options, last, prev, wrapped, apiCall>>

\* login / register / refreshToken after their post settled.
AuthContinue(c) ==
    /\ req[c].pc = "settled"
    /\ req[c].op \in AuthMethods
    /\ IF req[c].outcome.kind = "payload"
       THEN /\ authToken' = SaveAuthToken(req[c].outcome.token)[1]
            /\ storage' = SaveAuthToken(req[c].outcome.token)[2]
            /\ req' = [req EXCEPT ![c].pc = "done",
                          ![c].effects = @ \o <<"saveAuthToken", "return">>]
       ELSE /\ UNCHANGED <<authToken, storage>>
            /\ req' = [req EXCEPT ![c].pc = "done",
                          ![c].effects = Append(@, "throw")]
    /\ UNCHANGED <<location, options, last, prev, wrapped, apiCall>>

\* logout that removes the credential only when its request succeeded.
LogoutContinueNoFinally(c) ==
    /\ req[c].pc = "settled"
    /\ req[c].op = "logout"
    /\ IF req[c].outcome.kind = "payload"
       THEN authToken' = Null /\ storage' = Null
       ELSE UNCHANGED <<authToken, storage>>
    /\ req' = [req EXCEPT ![c].pc = "done",
                  ![c].outcome = IF @.kind = "payload"
                                 THEN Payload("void", Undefined) ELSE @,
                  ![c].effects = @ \o IF req[c].outcome.kind = "payload"
                                      THEN <<"removeAuthToken", "return">>
                                      ELSE <<"throw">>]
    /\ UNCHANGED <<location, options, last, prev, wrapped, apiCall>>

\* logout after its post settled: the finally block, then the post's outcome.
LogoutContinue(c) ==
    /\ req[c].pc = "settled"
    /\ req[c].op = "logout"
    /\ authToken' = RemoveAuthToken[1]
    /\ storage' = RemoveAuthToken[2]
    /\ req' = [req EXCEPT ![c].pc = "done",
                  ![c].outcome = IF @.kind = "payload"
                                 THEN Payload("void", Undefined) ELSE @,
                  ![c].effects = @ \o <<"removeAuthToken",
                                        IF req[c].outcome.kind = "payload"
                                        THEN "return" ELSE "throw">>]
    /\ UNCHANGED <<location, options, last, prev, wrapped, apiCall>>

\* The caller takes the result; it may start another operation.
Return(c) ==
    /\ req[c].pc = "done"
    /\ req' = [req EXCEPT ![c] = Idle]
    /\ UNCHANGED <<authToken, storage, location, options, last, prev, wrapped,
                   apiCall>>

----------------------------------------------------------------------------
(* ErrorHandler: inputs *)

NoStatus == -1

\* A value handed to the classifier.
\*   type: "object" (plain object), "error" (instance of Error), "string",
\*         "number", "null", "undefined"
\*   statusType: typeof value.status; status: its value when a number
\*   message: value.message when it is a string, else Undefined
\*   name: value.name of an Error; value: the text of a string input
\*   stack: value.stack of an Error, which opens with its name and message
Value(type, statusType, status, message, name, value) ==
    [type |-> type, statusType |-> statusType, status |-> status,
     message |-> message, name |-> name, value |-> value,
     stack |-> IF type = "error"
               THEN name \o ": " \o message \o " at app.js:1" ELSE Undefined]

ApiErr(status, message) ==
    Value("object", "number", status, message, Undefined, Undefined)
Err(name, message) ==
    Value("error", "undefined", NoStatus, message, name, Undefined)
Str(text) ==
    Value("string", "undefined", NoStatus, Undefined, Undefined, text)

NoInput == Value("absent", "undefined", NoStatus, Undefined, Undefined, Undefined)

ListedStatuses == {400, 401, 403, 404, 429, 500, 502, 503, 504}
OtherStatuses == {0, 200, 302, 399, 418, 499, 520, 599, 600}

StructuredInputs ==
    { ApiErr(s, "missing") : s \in ListedStatuses \cup OtherStatuses }
    \cup { ApiErr(404, ""),
           Value("error", "number", 404, "network down", "Error", Undefined),
           Value("error", "number", 503, "Failed to fetch", "TypeError", Undefined) }

ErrorInputs ==
    { Err(n, m) : n \in {"Error", "TypeError", "ReferenceError"},
                  m \in {"network down", "Failed to fetch", "boom"} }
    \cup { Err("Error", "Network down"), Err("AbortError", "") }

StringInputs == { Str(""), Str("X"), Str("network down") }

OtherInputs ==
    { Value("null", "undefined", NoStatus, Undefined, Undefined, Undefined),
      Value("undefined", "undefined", NoStatus, Undefined, Undefined, Undefined),
      Value("number", "undefined", NoStatus, Undefined, Undefined, "42"),
      Value("number", "undefined", NoStatus, Undefined, Undefined, "0"),
      Value("object", "undefined", NoStatus, "missing", Undefined, Undefined),
      Value("object", "string", NoStatus, "missing", Undefined, Undefined),
      Value("object", "number", 404, Undefined, Undefined, Undefined) }

Inputs == StructuredInputs \cup ErrorInputs \cup StringInputs \cup OtherInputs

\* ToBoolean of an input value.
TruthyValue(e) ==
    CASE e.type \in {"null", "undefined"} -> FALSE
      [] e.type = "string" -> e.value # ""
      [] e.type = "number" -> e.value # "0"
      [] OTHER -> TRUE

----------------------------------------------------------------------------
(* ErrorHandler: classification *)

ErrorType ==
    {"NETWORK", "VALIDATION", "AUTHENTICATION", "AUTHORIZATION",
     "NOT_FOUND", "SERVER", "CLIENT", "UNKNOWN"}

NoDetails ==
    [status |-> NoStatus, name |-> Undefined, stack |-> Undefined,
     error |-> NoInput, context |-> Undefined]

AppError(type, message, userMessage, details) ==
    [type |-> type, message |-> message, userMessage |-> userMessage,
     details |-> details]

IsApiError(e) ==
    TruthyValue(e) /\ e.statusType = "number" /\ e.message # Undefined

\* The switch with the case for 429 left out.
ClassifyStatusNo429(status) ==
    CASE status = 400 ->
           <<"VALIDATION", "Please check your input and try again.">>
      [] status = 401 ->
           <<"AUTHENTICATION", "Please log in to continue.">>
      [] status = 403 ->
           <<"AUTHORIZATION", "You don't have permission to perform this action.">>
      [] status = 404 ->
           <<"NOT_FOUND", "The requested resource was not found.">>
      [] status \in {500, 502, 503, 504} ->
           <<"SERVER", "Server error. Please try again later.">>
      [] OTHER ->
           IF status >= 400 /\ status < 500
           THEN <<"CLIENT", "There was a problem with your request.">>
           ELSE <<"SERVER", "Something went wrong. Please try again.">>

\* The switch with a default that takes every status below 500 for the
\* client's fault.
ClassifyStatusBelow500(status) ==
    CASE status = 400 ->
           <<"VALIDATION", "Please check your input and try again.">>
      [] status = 401 ->
           <<"AUTHENTICATION", "Please log in to continue.">>
      [] status = 403 ->
           <<"AUTHORIZATION", "You don't have permission to perform this action.">>
      [] status = 404 ->
           <<"NOT_FOUND", "The requested resource was not found.">>
      [] status = 429 ->
           <<"CLIENT", "Too many requests. Please try again later.">>
      [] status \in {500, 502, 503, 504} ->
           <<"SERVER", "Server error. Please try again later.">>
      [] OTHER ->
           IF status < 500
           THEN <<"CLIENT", "There was a problem with your request.">>
           ELSE <<"SERVER", "Something went wrong. Please try again.">>

\* The switch of createApiError: <<type, userMessage>> for a status.
ClassifyStatus(status) ==
    CASE status = 400 ->
           <<"VALIDATION", "Please check your input and try again.">>
      [] status = 401 ->
           <<"AUTHENTICATION", "Please log in to continue.">>
      [] status = 403 ->
           <<"AUTHORIZATION", "You don't have permission to perform this action.">>
      [] status = 404 ->
           <<"NOT_FOUND", "The requested resource was not found.">>
      [] status = 429 ->
           <<"CLIENT", "Too many requests. Please try again later.">>
      [] status \in {500, 502, 503, 504} ->
           <<"SERVER", "Server error. Please try again later.">>
      [] OTHER ->
           IF status >= 400 /\ status < 500
           THEN <<"CLIENT", "There was a problem with your request.">>
           ELSE <<"SERVER", "Something went wrong. Please try again.">>

CreateApiError(e, context) ==
    AppError(ClassifyStatus(e.status)[1], e.message, ClassifyStatus(e.status)[2],
             [NoDetails EXCEPT !.status = e.status, !.context = context])

\* The rules of createGenericError with the test for "network" left out.
ClassifyGenericFetchOnly(name, message) ==
    IF name = "TypeError" \/ name = "ReferenceError"
    THEN <<"CLIENT",
           "Something went wrong. Please refresh the page and try again.">>
    ELSE IF Includes(message, "fetch")
    THEN <<"NETWORK",
           "Network error. Please check your connection and try again.">>
    ELSE <<"UNKNOWN", "An unexpected error occurred. Please try again.">>

\* The rules of createGenericError with the message tested before the name.
ClassifyGenericMessageFirst(name, message) ==
    IF Includes(message, "fetch") \/ Includes(message, "network")
    THEN <<"NETWORK",
           "Network error. Please check your connection and try again.">>
    ELSE IF name = "TypeError" \/ name = "ReferenceError"
    THEN <<"CLIENT",
           "Something went wrong. Please refresh the page and try again.">>
    ELSE <<"UNKNOWN", "An unexpected error occurred. Please try again.">>

\* The rules of createGenericError: <<type, userMessage>>.
ClassifyGeneric(name, message) ==
    IF name = "TypeError" \/ name = "ReferenceError"
    THEN <<"CLIENT",
           "Something went wrong. Please refresh the page and try again.">>
    ELSE IF Includes(message, "fetch") \/ Includes(message, "network")
    THEN <<"NETWORK",
           "Network error. Please check your connection and try again.">>
    ELSE <<"UNKNOWN", "An unexpected error occurred. Please try again.">>

CreateGenericError(e, context) ==
    AppError(ClassifyGeneric(e.name, e.message)[1], e.message,
             ClassifyGeneric(e.name, e.message)[2],
             [NoDetails EXCEPT !.name = e.name, !.stack = e.stack,
                               !.context = context])

\* createStringError that falls back to a generic text for an empty string.
CreateStringErrorFallback(e, context) ==
    AppError("UNKNOWN", e.value,
             IF e.value = "" THEN "An unexpected error occurred. Please try again."
             ELSE e.value,
             [NoDetails EXCEPT !.context = context])

CreateStringError(e, context) ==
    AppError("UNKNOWN", e.value, e.value, [NoDetails EXCEPT !.context = context])

\* createUnknownError that keeps only the context, not the value it was given.
CreateUnknownErrorNoRaw(e, context) ==
    AppError("UNKNOWN", "Unknown error occurred",
             "An unexpected error occurred. Please try again.",
             [NoDetails EXCEPT !.context = context])

CreateUnknownError(e, context) ==
    AppError("UNKNOWN", "Unknown error occurred",
             "An unexpected error occurred. Please try again.",
             [NoDetails EXCEPT !.error = e, !.context = context])

\* createAppError that tests for an Error instance first.
CreateAppErrorErrorFirst(e, context) ==
    IF e.type = "error" THEN CreateGenericError(e, context)
    ELSE IF IsApiError(e) THEN CreateApiError(e, context)
    ELSE IF e.type = "string" THEN CreateStringError(e, context)
    ELSE CreateUnknownError(e, context)

\* createAppError that looks at the handler's configuration: with the redirect
\* switched off a 401 is no longer treated as a structured failure.
CreateAppErrorByConfig(e, context) ==
    IF IsApiError(e) /\ ~(e.status = 401 /\ options.redirectOnAuth # "true")
    THEN CreateApiError(e, context)
    ELSE IF e.type = "error" THEN CreateGenericError(e, context)
    ELSE IF e.type = "string" THEN CreateStringError(e, context)
    ELSE CreateUnknownError(e, context)

\* createAppError without its last branch: other shapes yield no error record.
CreateAppErrorNoElse(e, context) ==
    IF IsApiError(e) THEN CreateApiError(e, context)
    ELSE IF e.type = "error" THEN CreateGenericError(e, context)
    ELSE IF e.type = "string" THEN CreateStringError(e, context)
    ELSE AppError("none", Undefined, Undefined, NoDetails)

CreateAppError(e, context) ==
    IF IsApiError(e) THEN CreateApiError(e, context)
    ELSE IF e.type = "error" THEN CreateGenericError(e, context)
    ELSE IF e.type = "string" THEN CreateStringError(e, context)
    ELSE CreateUnknownError(e, context)

----------------------------------------------------------------------------
(* ErrorHandler: side effects *)

\* Options as passed to createErrorHandler: whether each hook is supplied, and
\* redirectOnAuth as "absent", "undefined", "true" or "false".
OptionSets ==
    [showToast : BOOLEAN, logError : BOOLEAN,
     redirectOnAuth : {"absent", "undefined", "true", "false"}]

\* The constructor: { redirectOnAuth: true, ...options }
Construct(o) ==
    [o EXCEPT !.redirectOnAuth = IF @ = "absent" THEN "true" ELSE @]

\* getLogLevel without the case for NOT_FOUND.
GetLogLevelNoNotFound(type) ==
    CASE type \in {"SERVER", "UNKNOWN"} -> "error"
      [] type \in {"AUTHENTICATION", "AUTHORIZATION"} -> "warn"
      [] OTHER -> "info"

GetLogLevel(type) ==
    CASE type \in {"SERVER", "UNKNOWN"} -> "error"
      [] type \in {"AUTHENTICATION", "AUTHORIZATION", "NOT_FOUND"} -> "warn"
      [] OTHER -> "info"

\* getToastType with the grouping of getLogLevel: NOT_FOUND in place of
\* VALIDATION.
GetToastTypeAsLogLevel(type) ==
    CASE type \in {"SERVER", "UNKNOWN"} -> "error"
      [] type \in {"AUTHENTICATION", "AUTHORIZATION", "NOT_FOUND"} -> "warning"
      [] OTHER -> "info"

GetToastType(type) ==
    CASE type \in {"SERVER", "UNKNOWN"} -> "error"
      [] type \in {"AUTHENTICATION", "AUTHORIZATION", "VALIDATION"} -> "warning"
      [] OTHER -> "info"

\* logError that calls the hook for the console output and again at the end.
LogErrorTwice(opts, appError) ==
    (IF opts.logError THEN <<"logError">> ELSE <<>>)
    \o <<"console." \o GetLogLevel(appError.type)>>
    \o (IF opts.logError THEN <<"logError">> ELSE <<>>)

\* logError: the console output, then the hook when configured.
LogError(opts, appError) ==
    <<"console." \o GetLogLevel(appError.type)>>
    \o (IF opts.logError THEN <<"logError">> ELSE <<>>)

ShowUserFeedback(opts, appError) ==
    IF opts.showToast THEN <<"showToast">> ELSE <<>>

\* handleSpecialCases that does not consult the redirectOnAuth option.
RedirectsAlways(opts, appError) == appError.type = "AUTHENTICATION"

\* handleSpecialCases that sends a 403 to the login page as well.
RedirectsOnAuthorization(opts, appError) ==
    appError.type \in {"AUTHENTICATION", "AUTHORIZATION"}
       /\ opts.redirectOnAuth = "true"

\* Whether handleSpecialCases removes the stored credential and navigates.
Redirects(opts, appError) ==
    appError.type = "AUTHENTICATION" /\ opts.redirectOnAuth = "true"

HandleSpecialCases(opts, appError) ==
    CASE Redirects(opts, appError) -> <<"removeItem", "navigate">>
      [] appError.type \in {"NETWORK", "SERVER"} -> <<"console.warn">>
      [] OTHER -> <<>>

\* No error record: nothing classified, or nothing handed to a hook.
NoAppError == AppError("none", Undefined, Undefined, NoDetails)

NoToast == [message |-> Undefined, type |-> Undefined]

\* The latest handleError call: nothing yet.
NoCall ==
    [input |-> NoInput, returned |-> FALSE, appError |-> NoAppError,
     effects |-> <<>>, toast |-> NoToast, logged |-> NoAppError]

\* What is remembered of an earlier classification.
Summary(call) ==
    [input |-> call.input, type |-> call.appError.type,
     message |-> call.appError.message,
     userMessage |-> call.appError.userMessage]

\* createErrorHandler(options): a new handler comes into use.
CreateErrorHandler(o) ==
    /\ options' = Construct(o)
    /\ last' = NoCall
    /\ UNCHANGED <<authToken, storage, location, req, prev, wrapped,
                   apiCall>>

\* handleError that runs the recovery action before the log and the
\* notification.
HandleErrorRecoverFirst(e, context) ==
    LET appError == CreateAppError(e, context)
    IN /\ last' = [input |-> e, returned |-> TRUE,
                   appError |-> appError,
                   effects |-> <<"createAppError">>
                               \o HandleSpecialCases(options, appError)
                               \o LogError(options, appError)
                               \o ShowUserFeedback(options, appError)
                               \o <<"return">>,
                   toast |-> IF options.showToast
                             THEN [message |-> appError.userMessage,
                                   type |-> GetToastType(appError.type)]
                             ELSE NoToast,
                   logged |-> IF options.logError THEN appError ELSE NoAppError]
       /\ IF Redirects(options, appError)
          THEN storage' = Null /\ location' = "/login"
          ELSE UNCHANGED <<storage, location>>
       /\ UNCHANGED <<authToken, req, options, apiCall>>

\* handleError(e, context) on the handler in use.
HandleError(e, context) ==
    LET appError == CreateAppError(e, context)
    IN /\ last' = [input |-> e, returned |-> TRUE,
                   appError |-> appError,
                   effects |-> <<"createAppError">>
                               \o LogError(options, appError)
                               \o ShowUserFeedback(options, appError)
                               \o HandleSpecialCases(options, appError)
                               \o <<"return">>,
                   toast |-> IF options.showToast
                             THEN [message |-> appError.userMessage,
                                   type |-> GetToastType(appError.type)]
                             ELSE NoToast,
                   logged |-> IF options.logError THEN appError ELSE NoAppError]
       /\ IF Redirects(options, appError)
          THEN storage' = Null /\ location' = "/login"
          ELSE UNCHANGED <<storage, location>>
       /\ UNCHANGED <<authToken, req, options, apiCall>>

Contexts == {Undefined, "JobService.load"}

\* A classification of which nothing is kept once the next one is made.
Classify(e, context) ==
    /\ HandleError(e, context)
    /\ UNCHANGED <<prev, wrapped>>

\* A classification that may be remembered when later ones are made.
Reclassify(e, context) ==
    /\ HandleError(e, context)
    /\ \E p \in {prev} \cup (IF last.returned THEN {Summary(last)} ELSE {}) :
          prev' = p
    /\ UNCHANGED wrapped

----------------------------------------------------------------------------
(* handleApiError *)

\* The failures handed to handleApiError: any status, a message or an empty
\* one.
ApiErrors ==
    { ApiErr(s, m) : s \in ListedStatuses \cup OtherStatuses, m \in {"missing", ""} }

\* The latest handleApiError call: nothing yet.
\*   toasts: the arguments of the showToast calls made, in order
NoApiCall ==
    [input |-> NoInput, supplied |-> FALSE, effects |-> <<>>, toasts |-> <<>>]

\* error.message || 'An unexpected error occurred'
ApiErrorMessage(e) ==
    IF Truthy(e.message) THEN e.message ELSE "An unexpected error occurred"

\* The switch on a 401 consulting the handler's redirectOnAuth option.
ApiErrorRedirectsByOption(e) == e.status = 401 /\ options.redirectOnAuth = "true"

\* The switch of handleApiError: only the case for 401 has a body.
ApiErrorRedirects(e) == e.status = 401

\* handleApiError(error, showToast), showToast supplied or not.
HandleApiError(e, showToast) ==
    /\ apiCall' =
          [input |-> e, supplied |-> showToast,
           effects |-> <<"console.error">>
                       \o (IF showToast THEN <<"showToast">> ELSE <<>>)
                       \o (IF ApiErrorRedirects(e) THEN <<"navigate">> ELSE <<>>),
           toasts |-> IF showToast THEN <<ApiErrorMessage(e)>> ELSE <<>>]
    /\ IF ApiErrorRedirects(e)
       THEN location' = "/login"
       ELSE UNCHANGED location
    /\ UNCHANGED <<authToken, storage, req, options, last, prev, wrapped>>

----------------------------------------------------------------------------
(* handleAsyncError: a method wrapped by the decorator *)

\* The methods the decorator is applied to: the decorator's target (a class
\* prototype, of which only constructor.name is read) and property key.
Decorated ==
    { [constructorName |-> "JobService", propertyKey |-> "load"],
      [constructorName |-> "UserService", propertyKey |-> "save"] }

\* `${target.constructor.name}.${propertyKey}`
WrapperContext(m) == m.constructorName \o "." \o m.propertyKey

\* What the original method resolves with.
Results == {"ok", ""}

\* What the original method rejects with.
Rejections ==
    { ApiErr(401, "missing"), ApiErr(500, "missing"),
      Err("TypeError", "Failed to fetch"), Str("X"),
      Value("null", "undefined", NoStatus, Undefined, Undefined, Undefined) }

\* No invocation of a wrapped method in progress.
\*   pc: "idle", "awaiting" (the original method runs), "returned", "thrown"
\*   settled: what the original method resolved or rejected with
\*   result / raised: what the wrapper returned / raised
\*   handled: the handleError calls the wrapper has made
NotInvoked ==
    [pc |-> "idle", context |-> Undefined, settled |-> NoInput,
     result |-> Undefined, raised |-> NoInput, handled |-> 0]

\* The wrapper is called: it calls the original method and awaits it.
InvokeWrapped(m) ==
    /\ wrapped.pc = "idle"
    /\ wrapped' = [NotInvoked EXCEPT !.pc = "awaiting",
                                     !.context = WrapperContext(m)]
    /\ UNCHANGED <<authToken, storage, location, req, options, last, prev,
                   apiCall>>

\* The original method resolves: the wrapper returns its result.
OriginalResolves(v) ==
    /\ wrapped.pc = "awaiting"
    /\ wrapped' = [wrapped EXCEPT !.pc = "returned", !.result = v]
    /\ UNCHANGED <<authToken, storage, location, req, options, last, prev,
                   apiCall>>

\* A wrapper that hands the rejection to the classifier and does not raise it
\* again.
OriginalRejectsSwallowed(e) ==
    /\ wrapped.pc = "awaiting"
    /\ HandleError(e, wrapped.context)
    /\ wrapped' = [wrapped EXCEPT !.pc = "returned", !.settled = e,
                                  !.handled = @ + 1]
    /\ UNCHANGED prev

\* The original method rejects: the catch block calls handleError and throws
\* the caught value.
OriginalRejects(e) ==
    /\ wrapped.pc = "awaiting"
    /\ HandleError(e, wrapped.context)
    /\ wrapped' = [wrapped EXCEPT !.pc = "thrown", !.settled = e,
                                  !.raised = e, !.handled = @ + 1]
    /\ UNCHANGED prev

\* The caller of the wrapper takes the outcome.
WrappedDone ==
    /\ wrapped.pc \in {"returned", "thrown"}
    /\ wrapped' = NotInvoked
    /\ UNCHANGED <<authToken, storage, location, req, options, last, prev,
                   apiCall>>

----------------------------------------------------------------------------
\* Construction: the client loads the stored credential.
StoredAtStart == {Null, ""} \cup Tokens

Init ==
    /\ storage \in StoredAtStart
    /\ authToken = LoadAuthToken(storage)
    /\ location = "/"
    /\ req = [c \in Callers |-> Idle]
    /\ options = Construct([showToast |-> FALSE, logError |-> FALSE,
                            redirectOnAuth |-> "absent"])
    /\ last = NoCall
    /\ prev = Summary(NoCall)
    /\ wrapped = NotInvoked
    /\ apiCall = NoApiCall

\* The steps of one caller's operation.
ClientStep(c) ==
    \/ \E op \in Ops : Call(c, op)
    \/ FetchReject(c)
    \/ \E s \in Statuses : \E b \in Bodies(req[c].op, s) : Respond(c, s, b)
    \/ AuthContinue(c)
    \/ LogoutContinue(c)
    \/ Return(c)

\* The request client under concurrent callers.
ClientNext == \E c \in Callers : ClientStep(c)

Spec == Init /\ [][ClientNext]_vars

\* The classifier on every input shape under every configuration.
ClassifierNext ==
    \/ \E o \in OptionSets : CreateErrorHandler(o)
    \/ \E e \in Inputs, x \in Contexts : Classify(e, x)

SpecClassifier == Init /\ [][ClassifierNext]_vars

\* One input of each shape, for the sessions in which client and classifier
\* are used together.
SessionInputs ==
    { ApiErr(401, "missing"), Err("Error", "network down"), Str("X") }

\* Configurations of the sessions: both hooks or none, any redirectOnAuth.
SessionOptions == { o \in OptionSets : o.showToast = o.logError }

\* A session: one caller uses the client, handlers are configured and
\* failures are classified, in any order.
SessionNext ==
    \/ ClientStep(1)
    \/ \E o \in SessionOptions : CreateErrorHandler(o)
    \/ \E e \in SessionInputs : Reclassify(e, Undefined)

SpecSession == Init /\ [][SessionNext]_vars

\* A decorated method is invoked and settles, under handlers of any
\* configuration.
WrapperNext ==
    \/ \E o \in OptionSets : CreateErrorHandler(o)
    \/ \E m \in Decorated : InvokeWrapped(m)
    \/ \E v \in Results : OriginalResolves(v)
    \/ \E e \in Rejections : OriginalRejects(e)
    \/ WrappedDone

SpecWrapper == Init /\ [][WrapperNext]_vars

\* Failures are reported through handleApiError while handlers of any
\* configuration come into use.
ApiErrorNext ==
    \/ \E o \in OptionSets : CreateErrorHandler(o)
    \/ \E e \in ApiErrors, t \in BOOLEAN : HandleApiError(e, t)

SpecApiError == Init /\ [][ApiErrorNext]_vars

----------------------------------------------------------------------------
(* Properties of the request client *)

\* Number of occurrences of x in the sequence s.
Count(s, x) == Cardinality({i \in 1..Len(s) : s[i] = x})

\* Position of the first x in s (0 when absent).
First(s, x) ==
    IF \E i \in 1..Len(s) : s[i] = x
    THEN CHOOSE i \in 1..Len(s) : s[i] = x /\ \A j \in 1..(i - 1) : s[j] # x
    ELSE 0

\* The step in which caller c's request settles on a response.
Responded(c) == req[c].pc = "fetching" /\ req'[c].pc # "fetching" /\ req'[c].status # 0

\* C1: for every operation whose response has status 401, the credential is
\* cleared from memory and from storage and 'auth:unauthorized' is emitted
\* exactly once for that response, both before the failure is raised: the
\* removal and the signal precede the first throw of the operation, and in the
\* state in which the failure is raised neither memory nor storage holds a
\* credential.
C1_UnauthorizedClearsAndSignalsOnce ==
    [][\A c \in Callers :
         /\ (Responded(c) /\ req'[c].status = 401) =>
               /\ authToken' = Null
               /\ storage' = Null
               /\ req'[c].outcome.kind = "failure"
         /\ req'[c].status = 401 =>
               /\ Count(req'[c].effects, "dispatchEvent") = 1
               /\ First(req'[c].effects, "removeAuthToken") > 0
               /\ First(req'[c].effects, "removeAuthToken")
                     < First(req'[c].effects, "throw")
               /\ First(req'[c].effects, "dispatchEvent")
                     < First(req'[c].effects, "throw")]_vars

\* An operation of every kind has ended on a 401 while a credential had been
\* held at construction or installed since.
C1_Witness ==
    \E c \in Callers :
       /\ req[c].pc = "done" /\ req[c].status = 401 /\ req[c].op = "refreshToken"
       /\ req[c].headers.Authorization = "Bearer t2"
       /\ authToken = Null /\ storage = Null

\* C2: when logout completes, whatever the outcome of its request (payload,
\* failure status, or the transport threw), the credential is absent from
\* memory and from storage and isAuthenticated() is false at that moment, and
\* a failure of the request is still raised to the caller.
C2_LogoutAlwaysClears ==
    [][\A c \in Callers :
         (req[c].op = "logout" /\ req[c].pc = "settled" /\ req'[c].pc = "done") =>
            /\ authToken' = Null
            /\ storage' = Null
            /\ ~IsAuthenticated'
            /\ req[c].outcome.kind # "payload" =>
                  /\ req'[c].outcome = req[c].outcome
                  /\ req'[c].effects[Len(req'[c].effects)] = "throw"]_vars

\* A logout whose transport threw has completed, after a credential had been
\* installed by a login, and no credential is left.
C2_Witness ==
    \E c \in Callers :
       /\ req[c].op = "logout" /\ req[c].pc = "done"
       /\ req[c].outcome.kind = "exception"
       /\ req[c].headers.Authorization = "Bearer t2"
       /\ authToken = Null /\ storage = Null

\* C3: every request carries 'Authorization: Bearer <credential>' if and only
\* if a non-empty credential is held when its headers are built, with the
\* credential held at that moment; what a request sent is not changed by
\* anything that completes while it is in flight.
C3_AuthorizationHeader ==
    [][\A c \in Callers :
         /\ (req[c].pc = "idle" /\ req'[c].pc = "fetching") =>
               req'[c].headers.Authorization =
                  IF authToken \in {Null, Undefined, ""}
                  THEN NoHeader ELSE "Bearer " \o authToken
         /\ (req[c].pc # "idle" /\ req'[c].pc # "idle") =>
               req'[c].headers = req[c].headers]_vars

\* A request sent with one credential is still in flight after a login
\* replaced the credential.
C3_Witness ==
    \E c \in Callers :
       /\ req[c].pc = "fetching"
       /\ req[c].headers.Authorization = "Bearer t1"
       /\ authToken = "t2"

\* C9: a response whose status is outside 200..299 makes the operation raise
\* a structured failure with that status, never a payload; a response in
\* 200..299 never raises a structured failure.
C9_FailureStatusRaised ==
    \A c \in Callers :
       req[c].status # 0 =>
          IF req[c].status >= 200 /\ req[c].status <= 299
          THEN req[c].outcome.kind # "failure"
          ELSE /\ req[c].outcome.kind = "failure"
               /\ req[c].outcome.status = req[c].status
               /\ req[c].effects[Len(req[c].effects)] = "throw"

\* A redirect-range response and a success response have both been handled.
C9_Witness ==
    \E c, d \in Callers :
       /\ req[c].pc = "done" /\ req[c].status = 302
       /\ req[c].outcome.kind = "failure" /\ req[c].outcome.status = 302
       /\ req[d].pc = "done" /\ req[d].status = 200
       /\ req[d].outcome.kind = "payload"

----------------------------------------------------------------------------
(* Properties of the classifier *)

\* A structured failure: a value with a numeric status and a string message.
Structured(e) ==
    e.type \in {"object", "error"} /\ e.statusType = "number" /\ e.message # Undefined

\* The table of kinds and user messages by status.
Table(status) ==
    CASE status = 400 -> <<"VALIDATION", "Please check your input and try again.">>
      [] status = 401 -> <<"AUTHENTICATION", "Please log in to continue.">>
      [] status = 403 -> <<"AUTHORIZATION",
                           "You don't have permission to perform this action.">>
      [] status = 404 -> <<"NOT_FOUND", "The requested resource was not found.">>
      [] status = 429 -> <<"CLIENT", "Too many requests. Please try again later.">>
      [] status \in {500, 502, 503, 504} ->
                         <<"SERVER", "Server error. Please try again later.">>

\* C4: a structured failure whose status is one of 400, 401, 403, 404, 429,
\* 500, 502, 503, 504 gets exactly the kind and user message of the table, and
\* its raw message is the failure's own message.
C4_ListedStatusTable ==
    (last.returned /\ Structured(last.input)
        /\ last.input.status \in {400, 401, 403, 404, 429, 500, 502, 503, 504}) =>
       /\ last.appError.type = Table(last.input.status)[1]
       /\ last.appError.userMessage = Table(last.input.status)[2]
       /\ last.appError.message = last.input.message

\* A 429 failure has been classified as CLIENT with the too-many-requests text.
C4_Witness ==
    /\ last.returned /\ Structured(last.input) /\ last.input.status = 429
    /\ last.appError.type = "CLIENT"
    /\ last.appError.userMessage = "Too many requests. Please try again later."

\* C5: a structured failure whose status is not in the table is CLIENT with
\* 'There was a problem with your request.' when 400 <= status < 500, and
\* SERVER with 'Something went wrong. Please try again.' for every other
\* status, inside or outside 400..599.
C5_UnlistedStatus ==
    (last.returned /\ Structured(last.input)
        /\ last.input.status \notin {400, 401, 403, 404, 429, 500, 502, 503, 504}) =>
       IF last.input.status >= 400 /\ last.input.status < 500
       THEN /\ last.appError.type = "CLIENT"
            /\ last.appError.userMessage = "There was a problem with your request."
       ELSE /\ last.appError.type = "SERVER"
            /\ last.appError.userMessage = "Something went wrong. Please try again."

\* A failure with a status below 400 has been classified as SERVER.
C5_Witness ==
    /\ last.returned /\ Structured(last.input) /\ last.input.status = 302
    /\ last.appError.type = "SERVER"

\* A generic exception: an Error that is not a structured failure.
Generic(e) == e.type = "error" /\ ~Structured(e)

\* C6 as stated: a generic exception whose message contains "network" is
\* NETWORK whatever its name.
C6_NetworkWhateverName ==
    (last.returned /\ Generic(last.input) /\ Includes(last.input.message, "network")) =>
       last.appError.type = "NETWORK"

\* C6, amended: a generic exception whose message contains "network" is
\* NETWORK unless its name is TypeError or ReferenceError, and then it is
\* CLIENT.
C6_NetworkUnlessTypeOrReference ==
    (last.returned /\ Generic(last.input) /\ Includes(last.input.message, "network")) =>
       last.appError.type =
          IF last.input.name \in {"TypeError", "ReferenceError"}
          THEN "CLIENT" ELSE "NETWORK"

\* An Error named Error with "network" in its message has been classified.
C6_Witness ==
    /\ last.returned /\ Generic(last.input) /\ last.input.name = "Error"
    /\ last.input.message = "network down"
    /\ last.appError.type = "NETWORK"

\* C7: a plain string X, the empty string included, is UNKNOWN with message X
\* and userMessage X.
C7_StringVerbatim ==
    (last.returned /\ last.input.type = "string") =>
       /\ last.appError.type = "UNKNOWN"
       /\ last.appError.message = last.input.value
       /\ last.appError.userMessage = last.input.value

\* The empty string has been classified.
C7_Witness ==
    /\ last.returned /\ last.input.type = "string" /\ last.input.value = ""
    /\ last.appError.userMessage = ""

C11_HooksAtMostOnce ==
    last.returned =>
       /\ Count(last.effects, "showToast") = IF options.showToast THEN 1 ELSE 0
       /\ Count(last.effects, "logError") = IF options.logError THEN 1 ELSE 0
       /\ Count(last.effects, "createAppError") = 1

\* A failure has been handled by a handler with both hooks configured.
C11_Witness ==
    /\ last.returned /\ options.showToast /\ options.logError
    /\ last.input.status = 500
    /\ Count(last.effects, "showToast") = 1 /\ Count(last.effects, "logError") = 1

\* The step in which an auth operation of caller c completes on a success
\* response.
AuthSucceeds(c) ==
    /\ req[c].op \in {"login", "register", "refreshToken"}
    /\ req[c].pc = "settled" /\ req'[c].pc = "done"
    /\ req[c].outcome.kind = "payload"

Handled(kind) ==
    /\ req' = req /\ options' = options
    /\ last'.returned /\ last'.appError.type = kind

C14_MemoryAndStorageAgree == authToken = storage

\* C15: the client never retries: an operation issues exactly one transport
\* call, made first, and a failure (failure status or transport exception)
\* ends the operation's request with a throw and no further attempt.
C15_NoRetry ==
    \A c \in Callers :
       req[c].pc # "idle" =>
          /\ Count(req[c].effects, "fetch") = 1
          /\ req[c].effects[1] = "fetch"
          /\ req[c].outcome.kind \in {"failure", "exception"} =>
                req[c].effects[Len(req[c].effects)] = "throw"

\* One operation has ended on a transport exception and another on a 500.
C15_Witness ==
    \E c, d \in Callers :
       /\ req[c].pc = "done" /\ req[c].outcome.kind = "exception"
       /\ req[c].outcome.name = "TypeError"
       /\ req[d].pc = "done" /\ req[d].status = 500
       /\ Count(req[c].effects, "fetch") = 1 /\ Count(req[d].effects, "fetch") = 1

\* The step in which a logout of caller c completes.
LogoutCompletes(c) ==
    req[c].op = "logout" /\ req[c].pc = "settled" /\ req'[c].pc = "done"

C17_RedirectUnlessSetFalse ==
    (last.returned /\ last.appError.type = "AUTHENTICATION") =>
       ((Count(last.effects, "removeItem") = 1 /\ Count(last.effects, "navigate") = 1)
           <=> options.redirectOnAuth # "false")

\* C18: isAuthenticated() is true if and only if a non-empty credential is
\* held in memory (it looks at nothing else); in particular, with no
\* operation started since construction, it is true if and only if storage
\* holds a non-empty 'auth_token'.
C18_AuthenticatedIffCredential ==
    /\ IsAuthenticated <=> authToken \notin {Null, Undefined, ""}
    /\ (\A c \in Callers : req[c].pc = "idle" /\ req[c].op = "none") =>
          (IsAuthenticated <=> storage \notin {Null, ""})

\* A client constructed over a stored entry that is the empty string has sent
\* a request without credential and is not authenticated.
C18_Witness ==
    \E c \in Callers :
       /\ req[c].op = "get" /\ req[c].pc = "done" /\ req[c].status = 200
       /\ req[c].headers.Authorization = NoHeader
       /\ storage = "" /\ authToken = "" /\ ~IsAuthenticated

\* The kind the status rules give: the table, then CLIENT for the other
\* statuses of 400..499 and SERVER for the rest.
StatusKind(status) ==
    IF status \in {400, 401, 403, 404, 429, 500, 502, 503, 504}
    THEN Table(status)[1]
    ELSE IF status >= 400 /\ status < 500 THEN "CLIENT" ELSE "SERVER"

\* C19: classification dispatches on the shape of the input in the order
\* structured failure, generic exception, string, other: a value with a numeric
\* status and a string message, an Error object included, is classified by its
\* status and carries the details of a structured failure; an Error that is
\* not structured carries its name; a string is its own message; anything else
\* gets the unknown-error message.
C19_ShapePrecedence ==
    last.returned =>
       IF Structured(last.input)
       THEN /\ last.appError.type = StatusKind(last.input.status)
            /\ last.appError.details.status = last.input.status
            /\ last.appError.details.name = Undefined
       ELSE IF last.input.type = "error"
       THEN /\ last.appError.details.name = last.input.name
            /\ last.appError.details.status = NoStatus
            /\ last.appError.message = last.input.message
       ELSE IF last.input.type = "string"
       THEN /\ last.appError.message = last.input.value
            /\ last.appError.details.error = NoInput
       ELSE /\ last.appError.message = "Unknown error occurred"
            /\ last.appError.details.error = last.input

\* An Error object carrying status 404 and a message about the network has
\* been classified by its status.
C19_Witness ==
    /\ last.returned /\ last.input.type = "error" /\ Structured(last.input)
    /\ last.input.status = 404 /\ last.input.message = "network down"
    /\ last.appError.type = "NOT_FOUND"

\* C20: for a generic exception the rules apply in order: the name TypeError
\* or ReferenceError gives CLIENT with the refresh-the-page text whatever the
\* message; otherwise a message containing "fetch" or "network" gives NETWORK;
\* otherwise UNKNOWN with the unexpected-error text; in all three cases the
\* details keep the exception's name and stack and the message is the
\* exception's message.
C20_GenericRulesInOrder ==
    (last.returned /\ Generic(last.input)) =>
       /\ IF last.input.name \in {"TypeError", "ReferenceError"}
          THEN /\ last.appError.type = "CLIENT"
               /\ last.appError.userMessage =
                     "Something went wrong. Please refresh the page and try again."
          ELSE IF Includes(last.input.message, "fetch")
                  \/ Includes(last.input.message, "network")
          THEN last.appError.type = "NETWORK"
          ELSE /\ last.appError.type = "UNKNOWN"
               /\ last.appError.userMessage =
                     "An unexpected error occurred. Please try again."
       /\ last.appError.details.name = last.input.name
       /\ last.appError.details.stack = last.input.stack
       /\ last.appError.message = last.input.message

\* A TypeError whose message mentions fetch has been classified as CLIENT.
C20_Witness ==
    /\ last.returned /\ Generic(last.input) /\ last.input.name = "TypeError"
    /\ last.input.message = "Failed to fetch"
    /\ last.appError.type = "CLIENT"
    /\ last.appError.details.stack = "TypeError: Failed to fetch at app.js:1"

\* An input of no recognised shape: not a structured failure, not an Error,
\* not a string.
OtherShape(e) == ~Structured(e) /\ e.type \notin {"error", "string"}

\* C21: every input that is neither a structured failure nor an Error nor a
\* string (null, undefined, a number, an object lacking a numeric status or a
\* string message) is classified as UNKNOWN with message 'Unknown error
\* occurred' and the raw input kept in the details; the call returns a record
\* for it like for any other shape.
C21_OtherShapesUnknown ==
    (last.input # NoInput /\ OtherShape(last.input)) =>
       /\ last.returned
       /\ last.appError.type = "UNKNOWN"
       /\ last.appError.message = "Unknown error occurred"
       /\ last.appError.details.error = last.input
       /\ last.appError.details.context \in Contexts

\* An object with a numeric status but no message has been classified as
\* UNKNOWN and is kept in the details.
C21_Witness ==
    /\ last.returned /\ OtherShape(last.input)
    /\ last.input.type = "object" /\ last.input.statusType = "number"
    /\ last.input.message = Undefined
    /\ last.appError.type = "UNKNOWN"
    /\ last.appError.details.error = last.input

\* The place of a side effect in the order of one call, after the console
\* output: the logError hook, the notification, the recovery action.
Stage(effect) ==
    CASE effect = "logError" -> 1
      [] effect = "showToast" -> 2
      [] effect = "removeItem" -> 3
      [] effect = "navigate" -> 4
      [] effect = "console.warn" -> 3
      [] OTHER -> 0

\* C22: within one call of handleError the side effects come in a fixed
\* order: classification first, then the console output, then the logError
\* hook, then the showToast notification, then the recovery action of the kind
\* (credential removal and navigation for AUTHENTICATION), and the return of
\* the error record last.
C22_SideEffectOrder ==
    last.returned =>
       LET n == Len(last.effects) IN
       /\ n >= 3
       /\ last.effects[1] = "createAppError"
       /\ last.effects[2] \in {"console.error", "console.warn", "console.info"}
       /\ last.effects[n] = "return"
       /\ \A i \in 3..(n - 1) : Stage(last.effects[i]) > 0
       /\ \A i, j \in 3..(n - 1) :
             i < j => Stage(last.effects[i]) < Stage(last.effects[j])

\* A 401 has been handled by a handler with both hooks and the redirect: log,
\* hook, notification, removal and navigation all happened.
C22_Witness ==
    /\ last.returned /\ last.input.status = 401
    /\ last.effects = <<"createAppError", "console.warn", "logError",
                        "showToast", "removeItem", "navigate", "return">>

\* The console severity by kind.
Severity(type) ==
    CASE type = "SERVER" -> "error"
      [] type = "UNKNOWN" -> "error"
      [] type = "AUTHENTICATION" -> "warn"
      [] type = "AUTHORIZATION" -> "warn"
      [] type = "NOT_FOUND" -> "warn"
      [] type = "NETWORK" -> "info"
      [] type = "VALIDATION" -> "info"
      [] type = "CLIENT" -> "info"

\* C23: every call logs to the console, with a severity fixed by the kind:
\* error for SERVER and UNKNOWN, warn for AUTHENTICATION, AUTHORIZATION and
\* NOT_FOUND, info for NETWORK, VALIDATION and CLIENT; the logError hook, when
\* configured, is handed the very error record the call returns, and nothing
\* is handed to it when it is not configured.
C23_LogSeverityByKind ==
    last.returned =>
       /\ last.effects[2] = "console." \o Severity(last.appError.type)
       /\ last.logged = IF options.logError THEN last.appError ELSE NoAppError

\* A 404 has been logged as a warning and handed to the logError hook.
C23_Witness ==
    /\ last.returned /\ last.appError.type = "NOT_FOUND"
    /\ last.effects[2] = "console.warn"
    /\ options.logError /\ last.logged = last.appError
    /\ last.logged.details.status = 404

\* The notification severity by kind.
ToastSeverity(type) ==
    CASE type = "SERVER" -> "error"
      [] type = "UNKNOWN" -> "error"
      [] type = "AUTHENTICATION" -> "warning"
      [] type = "AUTHORIZATION" -> "warning"
      [] type = "VALIDATION" -> "warning"
      [] type = "NETWORK" -> "info"
      [] type = "NOT_FOUND" -> "info"
      [] type = "CLIENT" -> "info"

\* C24: when the notification hook is configured it is invoked with the
\* userMessage of the error record and a severity fixed by the kind: error for
\* SERVER and UNKNOWN, warning for AUTHENTICATION, AUTHORIZATION and
\* VALIDATION, info for NETWORK, NOT_FOUND and CLIENT; when it is not
\* configured there is no notification.
C24_ToastSeverityByKind ==
    last.returned =>
       IF options.showToast
       THEN /\ Count(last.effects, "showToast") = 1
            /\ last.toast.message = last.appError.userMessage
            /\ last.toast.type = ToastSeverity(last.appError.type)
       ELSE /\ Count(last.effects, "showToast") = 0
            /\ last.toast = NoToast

\* A 400 has been notified as a warning with the check-your-input text.
C24_Witness ==
    /\ last.returned /\ options.showToast
    /\ last.appError.type = "VALIDATION"
    /\ last.toast.type = "warning"
    /\ last.toast.message = "Please check your input and try again."

\* C25: for every kind other than AUTHENTICATION a call of handleError
\* changes no state: it issues no request and retries nothing (for NETWORK and
\* SERVER it only writes a console warning), and it leaves the credential, in
\* memory and in storage, and the location as they were.
C25_NoRecoveryBesidesAuthentication ==
    [][(last'.returned /\ last'.appError.type # "AUTHENTICATION") =>
          /\ storage' = storage
          /\ authToken' = authToken
          /\ location' = location
          /\ req' = req
          /\ \A i \in 1..Len(last'.effects) :
                last'.effects[i] \notin {"fetch", "removeItem", "navigate"}
          /\ Count(last'.effects, "console.warn")
                = (IF last'.appError.type \in {"NETWORK", "SERVER"} THEN 1 ELSE 0)
                  + (IF Severity(last'.appError.type) = "warn" THEN 1 ELSE 0)]_vars

\* A 503 has been handled by a redirecting handler while a credential is
\* stored: the credential is still there and the location is unchanged.
C25_Witness ==
    /\ last.returned /\ last.appError.type = "SERVER" /\ last.input.status = 503
    /\ options.redirectOnAuth = "true"
    /\ Count(last.effects, "console.warn") = 1
    /\ storage = "t1" /\ authToken = "t1" /\ location = "/"

\* C26: the message of a raised structured failure is the message field of
\* the decoded response body whenever the body is valid JSON and has that
\* field, whatever the field's value (the empty string included), and is
\* 'HTTP error! status: <status>' otherwise.
C26_MessageWheneverFieldExists ==
    \A c \in Callers :
       req[c].outcome.kind = "failure" =>
          req[c].outcome.message =
             IF req[c].body.parse = "object" /\ req[c].body.message # Undefined
             THEN req[c].body.message
             ELSE "HTTP error! status: " \o ToString(req[c].status)

\* The step in which caller c's request, sent with another credential than
\* the token now held or with none, is answered with a 401.  The credential
\* held differs from the one the request was built with, so it was installed
\* by a login, register or refreshToken that succeeded after the request was
\* sent.
StaleUnauthorized(c) ==
    /\ Responded(c) /\ req'[c].status = 401
    /\ authToken \in Tokens
    /\ req[c].headers.Authorization # "Bearer " \o authToken

\* C27 as stated: a credential that is held stays held until a logout
\* completes or a 401 arrives for a request sent with that same credential
\* (its replacement by a later successful login, register or refreshToken
\* aside); a 401 answering a request sent before the login leaves the newer
\* credential in place.
C27_StaleUnauthorizedKeepsCredential ==
    [][/\ (authToken \in Tokens /\ authToken' # authToken) =>
             \E c \in Callers :
                \/ LogoutCompletes(c)
                \/ AuthSucceeds(c)
                \/ /\ Responded(c) /\ req'[c].status = 401
                   /\ req[c].headers.Authorization = "Bearer " \o authToken
       /\ \A c \in Callers :
             StaleUnauthorized(c) => authToken' = authToken /\ storage' = storage]_vars

\* C27, amended: a credential that is held stays held until a logout
\* completes, a later login, register or refreshToken succeeds, or a 401
\* arrives for any request, whichever credential that request was sent with; a
\* 401 answering a request sent before the login (with an older credential or
\* none) does clear the newer credential, from memory and from storage.
C27_AnyUnauthorizedClearsCredential ==
    [][/\ (authToken \in Tokens /\ authToken' # authToken) =>
             \E c \in Callers :
                \/ LogoutCompletes(c)
                \/ AuthSucceeds(c)
                \/ Responded(c) /\ req'[c].status = 401
       /\ \A c \in Callers :
             StaleUnauthorized(c) => authToken' = Null /\ storage' = Null]_vars

\* A get sent without credential was answered with a 401 after a login of
\* the other caller had installed t1: no credential is held any more.
C27_Witness ==
    \E c, d \in Callers :
       /\ req[c].op = "get" /\ req[c].pc = "done" /\ req[c].status = 401
       /\ req[c].headers.Authorization = NoHeader
       /\ req[d].op = "login" /\ req[d].pc = "done"
       /\ req[d].outcome.kind = "payload" /\ req[d].outcome.token = "t1"
       /\ Count(req[d].effects, "saveAuthToken") = 1
       /\ authToken = Null /\ storage = Null

\* C28: when the request of a login, register or refreshToken fails with a
\* status other than 401, or the transport throws, no step of the operation
\* changes the credential, in memory or in storage, and the operation ends by
\* raising that failure; the operation writes the credential only after a
\* success response.
C28_FailedAuthKeepsCredential ==
    [][\A c \in Callers :
         req[c].op \in {"login", "register", "refreshToken"} =>
            /\ (req[c].pc = "fetching" /\ req'[c].pc = "settled"
                   /\ req'[c].outcome.kind # "payload" /\ req'[c].status # 401) =>
                  authToken' = authToken /\ storage' = storage
            /\ (req[c].pc = "settled" /\ req'[c].pc = "done"
                   /\ req[c].outcome.kind # "payload") =>
                  /\ authToken' = authToken /\ storage' = storage
                  /\ req'[c].outcome = req[c].outcome
                  /\ req'[c].effects[Len(req'[c].effects)] = "throw"
            /\ Count(req'[c].effects, "saveAuthToken") > 0 =>
                  /\ req'[c].status >= 200 /\ req'[c].status <= 299
                  /\ req'[c].outcome.kind = "payload"]_vars

\* A login sent with credential t1 has failed with a 500, a register with a
\* transport exception, and t1 is still held.
C28_Witness ==
    \E c, d \in Callers :
       /\ req[c].op = "login" /\ req[c].pc = "done" /\ req[c].status = 500
       /\ req[c].outcome.kind = "failure"
       /\ req[c].headers.Authorization = "Bearer t1"
       /\ req[d].op = "register" /\ req[d].pc = "done"
       /\ req[d].outcome.kind = "exception" /\ req[d].outcome.name = "TypeError"
       /\ authToken = "t1" /\ storage = "t1"

C30_ApiErrorRedirectsOn401Only ==
    [][(apiCall' # apiCall \/ location' # location) =>
          /\ Len(apiCall'.toasts) = IF apiCall'.supplied THEN 1 ELSE 0
          /\ Count(apiCall'.effects, "showToast") = Len(apiCall'.toasts)
          /\ apiCall'.supplied =>
                apiCall'.toasts[1] =
                   IF apiCall'.input.message = ""
                   THEN "An unexpected error occurred"
                   ELSE apiCall'.input.message
          /\ location' = IF apiCall'.input.status = 401 THEN "/login" ELSE location
          /\ Count(apiCall'.effects, "navigate")
                = IF apiCall'.input.status = 401 THEN 1 ELSE 0
          /\ authToken' = authToken /\ storage' = storage
          /\ req' = req /\ last' = last /\ options' = options]_vars

\* A 401 with an empty message has been reported while the handler in use
\* has redirectOnAuth false: the default text was shown, the location is
\* /login and the stored credential is still there.
C30_Witness ==
    /\ apiCall.input = ApiErr(401, "") /\ apiCall.supplied
    /\ apiCall.toasts = <<"An unexpected error occurred">>
    /\ options.redirectOnAuth = "false"
    /\ location = "/login"
    /\ storage = "t1" /\ authToken = "t1"

====
